---- MODULE Spec2Model ----
(***************************************************************************)
(* Model of ctrl.py: a command-line tool that bootstraps fluxcd into a     *)
(* kube cluster (bootstrap) and manages demo tenants (tenant add / list /  *)
(* delete).  The tool keeps no state of its own; the state is the cluster  *)
(* (namespaces, their labels, the namespaced objects) plus, per running    *)
(* invocation, its parsed arguments, its position in the workflow, the     *)
(* calls it has issued so far, what it printed and its exit status.        *)
(* Invocations interleave at the granularity of one cluster API call or    *)
(* one subprocess call.                                                    *)
(***************************************************************************)
EXTENDS Naturals, Sequences, FiniteSets, TLC

\* ------------------------------------------------------------------ bounds

\* Total number of invocations of the tool in one behaviour.
MaxRuns == 3

\* ------------------------------------------------------------- input sets

\* Invocation slots, one per operator's terminal.
Procs == {"p1", "p2"}
\* The slot in which one operator runs one command after another.
Operator == "p1"

\* Python's None.
None == "<None>"

TenantNamespaces == {"team-a", "team-b"}
\* A namespace that exists in every cluster and carries no tenant label.
SystemNamespaces == {"default"}
AllNamespaces == TenantNamespaces \cup SystemNamespaces
\* The order in which the cluster returns namespaces from a list call.
NsOrder == <<"default", "team-a", "team-b">>

TenantNames == {"A", "B"}
ClusterNames == {"kc"}
\* --git-url values and the stdout of "git remote get-url origin", as
\* sequences of characters.
GitUrlArgs == {<<"u", "r", "l">>}
GitRemoteStdout == <<"o", "r", "g", "\n">>
\* None in an attribute that otherwise holds a sequence of characters.
NoneChars == <<None>>

\* ---------------------------------------------------------------- ctrl.py

tenant_name_label == "flux-multitenant-demo.ringerc.github.com/tenant-name"
flux_tenant_label == "toolkit.fluxcd.io/tenant"
LabelKeys == {tenant_name_label, flux_tenant_label}
NoLabels == [k \in LabelKeys |-> None]

\* Truth value of an optional string argument: None and "" are false.
Truthy(s) == s /= None /\ s /= ""

\* hasattr(obj, name) and getattr(obj, name, default) on an argparse
\* Namespace, whose attributes are the fields of the record.
HasAttr(obj, name) == name \in DOMAIN obj
GetAttr(obj, name, default) == IF name \in DOMAIN obj THEN obj[name] ELSE default

Whitespace == {" ", "\n", "\t", "\r"}
RECURSIVE LStrip(_)
LStrip(s) == IF s /= <<>> /\ Head(s) \in Whitespace THEN LStrip(Tail(s)) ELSE s
RECURSIVE RStrip(_)
RStrip(s) ==
    IF s /= <<>> /\ s[Len(s)] \in Whitespace
    THEN RStrip(SubSeq(s, 1, Len(s) - 1))
    ELSE s
\* str.strip()
Strip(s) == RStrip(LStrip(s))
\* The characters of s as one string.
RECURSIVE Join(_)
Join(s) == IF s = <<>> THEN "" ELSE Head(s) \o Join(Tail(s))

\* The parsed document of tenant-flux-kustomization-template.yaml.
Template ==
    [ apiVersion |-> "kustomize.toolkit.fluxcd.io/v1beta2",
      kind |-> "Kustomization",
      metadata |-> [name |-> "tenant"],
      spec |-> [ path |-> "./kustomizations/per-tenant",
                 postBuild |-> [substitute |-> [SUBST_LITERAL |-> "unset"]] ] ]

\* d with field k set to v, whether or not d had that field (d[k] = v).
SetItem(d, k, v) == [x \in DOMAIN d \cup {k} |-> IF x = k THEN v ELSE d[x]]

\* The three overrides tenant_add applies to the loaded template.
MutateTemplate(t, a) ==
    LET m == SetItem(t.metadata, "namespace", a.tenant_namespace)
        sub == SetItem(t.spec.postBuild.substitute, "SUBST_LITERAL", a.tenant_name)
        pb == SetItem(t.spec.postBuild, "substitute", sub)
        s == SetItem(SetItem(t.spec, "targetNamespace", a.tenant_namespace),
                     "postBuild", pb)
    IN  SetItem(SetItem(t, "metadata", m), "spec", s)

\* Mutant of NamespaceLabels: the values of the two labels are swapped.
NamespaceLabelsSwapped(a) ==
    [k \in LabelKeys |->
        IF k = tenant_name_label THEN a.tenant_namespace ELSE a.tenant_name]
\* The objects tenant_add builds from its arguments.
NamespaceLabels(a) ==
    [k \in LabelKeys |->
        IF k = tenant_name_label THEN a.tenant_name ELSE a.tenant_namespace]
TenantConfigMap(a) ==
    [ kind |-> "ConfigMap", namespace |-> a.tenant_namespace, name |-> "tenant-vars",
      body |-> [PER_TENANT_SUBST |->
                   "This tenant name is \"" \o a.tenant_name \o "\""] ]
TenantServiceAccount(a) ==
    [ kind |-> "ServiceAccount", namespace |-> a.tenant_namespace,
      name |-> a.tenant_namespace,
      body |-> [labels |-> [toolkit_fluxcd_io_tenant |-> a.tenant_namespace]] ]
TenantRoleBinding(a) ==
    [ kind |-> "RoleBinding", namespace |-> a.tenant_namespace,
      name |-> a.tenant_namespace \o "-reconciler",
      body |-> [ labels |-> [toolkit_fluxcd_io_tenant |-> a.tenant_namespace],
                 role_ref |-> [ api_group |-> "rbac.authorization.k8s.io",
                                kind |-> "ClusterRole", name |-> "cluster-admin" ],
                 subjects |->
                   << [ api_group |-> "rbac.authorization.k8s.io", kind |-> "User",
                        name |-> "gotk:" \o a.tenant_namespace \o ":reconciler" ],
                      [ kind |-> "ServiceAccount", name |-> a.tenant_namespace,
                        namespace |-> a.tenant_namespace ] >> ] ]
TenantKustomization(a, d) ==
    [ kind |-> "kustomizations", namespace |-> a.tenant_namespace,
      name |-> d.metadata.name, body |-> d ]

\* The argv of the two flux invocations of bootstrap.
InstallCmd(a) ==
    LET base == <<"flux", "install", "-n", "flux-system", "--watch-all-namespaces">>
    IN  IF HasAttr(a, "cluster") THEN Append(base, "--cluster=" \o a["cluster"])
        ELSE base
CreateSrcCmd(a, remote) ==
    LET git_url == Strip(GetAttr(a, "git-url", remote))
    IN  << "flux", "create", "source", "git", "default",
           "--url=" \o Join(git_url), "--silent", "--branch=main",
           "--ignore-paths=ctrl.py,README.md" >>

\* Mutant of FieldSelector: the namespace argument is not made a selector.
FieldSelectorDropped(a) == <<>>
\* The selectors tenant_delete builds: <<>> is None, <<key>> selects on the
\* presence of key, <<key, "=", value>> on its value.
FieldSelector(a) ==
    IF Truthy(a.tenant_namespace)
    THEN <<"metadata.name", "=", a.tenant_namespace>>
    ELSE <<>>
LabelSelector(a) ==
    IF Truthy(a.tenant_name)
    THEN <<tenant_name_label, "=", a.tenant_name>>
    ELSE <<tenant_name_label>>
\* The selector of tenant_list.
ListLabelSelector == <<tenant_name_label>>

\* The namespaces the parsers accept, per sub-command.
BootstrapArgs ==
    [ func : {"bootstrap"},
      kube_cluster : {None} \cup ClusterNames, git_url : {NoneChars} \cup GitUrlArgs ]
TenantAddArgs ==
    [ func : {"tenant_add"}, kube_cluster : {None},
      tenant_namespace : AllNamespaces, tenant_name : TenantNames ]
TenantDeleteArgs ==
    [ func : {"tenant_delete"}, kube_cluster : {None},
      tenant_namespace : {None} \cup AllNamespaces,
      tenant_name : {None, ""} \cup TenantNames ]
TenantListArgs ==
    [ func : {"tenant_list"}, kube_cluster : {None} ]
ArgSpace == BootstrapArgs \cup TenantAddArgs \cup TenantDeleteArgs \cup TenantListArgs
NoArgs == [func |-> "none"]

\* First step of each workflow.
Entry(f) ==
    CASE f = "bootstrap" -> "boot_install"
      [] f = "tenant_add" -> "add_load"
      [] f = "tenant_list" -> "list_query"
      [] f = "tenant_delete" -> "del_check"

VARIABLES
    nsPhase,    \* cluster: namespace -> "Absent" | "Active" | "Terminating"
    nsLabels,   \* cluster: namespace -> its labels
    nsBy,       \* which invocation slot created the namespace
    objects,    \* cluster: the namespaced objects, each with its creator
    pc,         \* invocation slot -> position in the workflow
    args,       \* slot -> parsed arguments
    calls,      \* slot -> the cluster and subprocess calls issued so far
    out,        \* slot -> what the workflow printed
    status,     \* slot -> "none" | "running" | "exit0" | "exit1"
    err,        \* slot -> the error that ended the invocation
    doc,        \* tenant_add: flux_kustomization
    nslist,     \* tenant_delete: nslist.items
    git_out,    \* bootstrap: what get_git_url() returned
    runs,       \* invocations started so far
    prev        \* the tenant the last finished invocation added, if it did

cluster == <<nsPhase, nsLabels, nsBy, objects>>
vars == <<nsPhase, nsLabels, nsBy, objects, pc, args, calls, out, status,
          err, doc, nslist, git_out, runs, prev>>

NoTenant == <<>>

Init ==
    /\ nsPhase = [n \in AllNamespaces |->
                    IF n \in SystemNamespaces THEN "Active" ELSE "Absent"]
    /\ nsLabels = [n \in AllNamespaces |-> NoLabels]
    /\ nsBy = [n \in AllNamespaces |-> None]
    /\ objects = {}
    /\ pc = [p \in Procs |-> "idle"]
    /\ args = [p \in Procs |-> NoArgs]
    /\ calls = [p \in Procs |-> <<>>]
    /\ out = [p \in Procs |-> <<>>]
    /\ status = [p \in Procs |-> "none"]
    /\ err = [p \in Procs |-> None]
    /\ doc = [p \in Procs |-> NoArgs]
    /\ nslist = [p \in Procs |-> <<>>]
    /\ git_out = [p \in Procs |-> <<>>]
    /\ runs = 0
    /\ prev = NoTenant

\* ------------------------------------------------------------ the cluster

\* Answers of the cluster API.  A call that does not reach the cluster, or
\* that the cluster refuses for a reason outside this model (Unauthorized,
\* Invalid), answers "ApiError".
CreateNamespaceAnswer(name) ==
    IF nsPhase[name] /= "Absent" THEN "AlreadyExists" ELSE "Created"
CreateObjectAnswer(o) ==
    IF nsPhase[o.namespace] = "Absent" THEN "NotFound"
    ELSE IF nsPhase[o.namespace] = "Terminating" THEN "Forbidden"
    ELSE IF \E x \in objects :
                x.kind = o.kind /\ x.namespace = o.namespace /\ x.name = o.name
         THEN "AlreadyExists"
    ELSE "Created"
DeleteNamespaceAnswer(name) ==
    IF nsPhase[name] = "Absent" THEN "NotFound" ELSE "Accepted"

Matches(n, field_selector, label_selector) ==
    /\ nsPhase[n] /= "Absent"
    /\ field_selector /= <<>> => field_selector[3] = n
    /\ IF Len(label_selector) = 1
       THEN nsLabels[n][label_selector[1]] /= None
       ELSE nsLabels[n][label_selector[1]] = label_selector[3]
NamespaceItem(n) == [name |-> n, labels |-> nsLabels[n], phase |-> nsPhase[n]]
RECURSIVE ItemsFrom(_, _, _)
ItemsFrom(order, fs, ls) ==
    IF order = <<>> THEN <<>>
    ELSE (IF Matches(Head(order), fs, ls) THEN <<NamespaceItem(Head(order))>>
          ELSE <<>>) \o ItemsFrom(Tail(order), fs, ls)
\* list_namespace(field_selector, label_selector).items
ListNamespace(fs, ls) == ItemsFrom(NsOrder, fs, ls)

\* The cluster finishes the cascading deletion of a namespace.
Finalize(n) ==
    /\ nsPhase[n] = "Terminating"
    /\ nsPhase' = [nsPhase EXCEPT ![n] = "Absent"]
    /\ nsLabels' = [nsLabels EXCEPT ![n] = NoLabels]
    /\ nsBy' = [nsBy EXCEPT ![n] = None]
    /\ objects' = {o \in objects : o.namespace /= n}
    /\ UNCHANGED <<pc, args, calls, out, status, err, doc, nslist, git_out,
                   runs, prev>>

\* ------------------------------------------------------------- invocation

Goto(p, l) ==
    /\ pc' = [pc EXCEPT ![p] = l]
    /\ UNCHANGED <<status, err, prev>>
\* The invocation in slot p ends with exit status st.
Finish(p, st, e) ==
    /\ pc' = [pc EXCEPT ![p] = "done"]
    /\ status' = [status EXCEPT ![p] = st]
    /\ err' = [err EXCEPT ![p] = e]
    /\ prev' = IF args[p].func = "tenant_add" /\ st = "exit0"
               THEN <<args[p].tenant_namespace, args[p].tenant_name>>
               ELSE NoTenant
Log(p, op, target, arg, answer) ==
    calls' = [calls EXCEPT ![p] =
                Append(@, [op |-> op, target |-> target, arg |-> arg,
                           answer |-> answer])]
Say(p, line) == out' = [out EXCEPT ![p] = Append(@, line)]

\* main(): parse the arguments a, run security_reminder() unless
\* no_hack_message (it exits 1 when the token variable is set), then
\* dispatch to a.func.  The texts of the reminder are not kept in out.
StartWith(p, a, no_hack_message, tok) ==
    /\ runs < MaxRuns
    /\ runs' = runs + 1
    /\ args' = [args EXCEPT ![p] = a]
    /\ calls' = [calls EXCEPT ![p] = <<>>]
    /\ out' = [out EXCEPT ![p] = <<>>]
    /\ doc' = [doc EXCEPT ![p] = NoArgs]
    /\ nslist' = [nslist EXCEPT ![p] = <<>>]
    /\ git_out' = [git_out EXCEPT ![p] = <<>>]
    /\ UNCHANGED cluster
    /\ IF ~no_hack_message /\ tok
       THEN /\ pc' = [pc EXCEPT ![p] = "done"]
            /\ status' = [status EXCEPT ![p] = "exit1"]
            /\ err' = [err EXCEPT ![p] = "SecurityReminder"]
            /\ prev' = NoTenant
       ELSE /\ pc' = [pc EXCEPT ![p] = Entry(a.func)]
            /\ status' = [status EXCEPT ![p] = "running"]
            /\ err' = [err EXCEPT ![p] = None]
            /\ UNCHANGED prev

\* The operator runs the next command once the previous one has exited.
Start(p) ==
    /\ p = Operator
    /\ pc[p] \in {"idle", "done"}
    /\ \E a \in ArgSpace, no_hack_message \in BOOLEAN, tok \in BOOLEAN :
        StartWith(p, a, no_hack_message, tok)

\* -------------------------------------------------------------- tenant add

\* load_kube_config(), open and parse the template, apply the overrides.
AddLoad(p) ==
    /\ pc[p] = "add_load"
    /\ \E ok \in BOOLEAN :
        IF ok
        THEN /\ doc' = [doc EXCEPT ![p] = MutateTemplate(Template, args[p])]
             /\ Goto(p, "add_ns")
        ELSE /\ Finish(p, "exit1", "TemplateError")
             /\ UNCHANGED doc
    /\ UNCHANGED <<cluster, args, calls, out, nslist, git_out, runs>>

\* Mutant of AddNamespace: AlreadyExists is caught and the workflow goes on.
AddNamespaceIgnoresExists(p) ==
    /\ pc[p] = "add_ns"
    /\ LET name == args[p].tenant_namespace IN
       \E answer \in {CreateNamespaceAnswer(name), "ApiError"} :
        /\ Log(p, "create_namespace", name, NamespaceLabels(args[p]), answer)
        /\ IF answer = "Created"
           THEN /\ nsPhase' = [nsPhase EXCEPT ![name] = "Active"]
                /\ nsLabels' = [nsLabels EXCEPT ![name] = NamespaceLabels(args[p])]
                /\ nsBy' = [nsBy EXCEPT ![name] = p]
                /\ Goto(p, "add_cm")
           ELSE /\ UNCHANGED <<nsPhase, nsLabels, nsBy>>
                /\ IF answer = "AlreadyExists" THEN Goto(p, "add_cm")
                   ELSE Finish(p, "exit1", answer)
    /\ UNCHANGED <<objects, args, out, doc, nslist, git_out, runs>>

\* Mutant of AddNamespace: a namespace that exists has its labels replaced
\* (create-or-update) and the workflow goes on.
AddNamespaceUpserts(p) ==
    /\ pc[p] = "add_ns"
    /\ LET name == args[p].tenant_namespace IN
       \E answer \in {CreateNamespaceAnswer(name), "ApiError"} :
        /\ Log(p, "create_namespace", name, NamespaceLabels(args[p]), answer)
        /\ IF answer = "Created"
           THEN /\ nsPhase' = [nsPhase EXCEPT ![name] = "Active"]
                /\ nsLabels' = [nsLabels EXCEPT ![name] = NamespaceLabels(args[p])]
                /\ nsBy' = [nsBy EXCEPT ![name] = p]
                /\ Goto(p, "add_cm")
           ELSE IF answer = "AlreadyExists"
           THEN /\ nsLabels' = [nsLabels EXCEPT ![name] = NamespaceLabels(args[p])]
                /\ UNCHANGED <<nsPhase, nsBy>>
                /\ Goto(p, "add_cm")
           ELSE /\ UNCHANGED <<nsPhase, nsLabels, nsBy>>
                /\ Finish(p, "exit1", answer)
    /\ UNCHANGED <<objects, args, out, doc, nslist, git_out, runs>>

\* api_instance.create_namespace(V1Namespace(metadata=nsmeta))
AddNamespace(p) ==
    /\ pc[p] = "add_ns"
    /\ LET name == args[p].tenant_namespace IN
       \E answer \in {CreateNamespaceAnswer(name), "ApiError"} :
        /\ Log(p, "create_namespace", name, NamespaceLabels(args[p]), answer)
        /\ IF answer = "Created"
           THEN /\ nsPhase' = [nsPhase EXCEPT ![name] = "Active"]
                /\ nsLabels' = [nsLabels EXCEPT ![name] = NamespaceLabels(args[p])]
                /\ nsBy' = [nsBy EXCEPT ![name] = p]
                /\ Goto(p, "add_cm")
           ELSE /\ UNCHANGED <<nsPhase, nsLabels, nsBy>>
                /\ Finish(p, "exit1", answer)
    /\ UNCHANGED <<objects, args, out, doc, nslist, git_out, runs>>

\* The object o as slot p stores it in the cluster.
Stored(o, p) ==
    [kind |-> o.kind, namespace |-> o.namespace, name |-> o.name,
     body |-> o.body, by |-> p]

\* Mutant of AddObject: a failed create is swallowed and the workflow goes on.
AddObjectKeepsGoing(p, at, op, o, next) ==
    /\ pc[p] = at
    /\ \E answer \in {CreateObjectAnswer(o), "ApiError"} :
        /\ Log(p, op, o.namespace, o, answer)
        /\ objects' = IF answer = "Created" THEN objects \cup {Stored(o, p)}
                      ELSE objects
        /\ IF next = "done"
           THEN /\ Finish(p, "exit0", None)
                /\ Say(p, "Tenant created.")
           ELSE /\ Goto(p, next)
                /\ UNCHANGED out
    /\ UNCHANGED <<nsPhase, nsLabels, nsBy, args, doc, nslist, git_out, runs>>

\* One create call of tenant_add below the namespace: object o, then on to
\* the step next.
AddObject(p, at, op, o, next) ==
    /\ pc[p] = at
    /\ \E answer \in {CreateObjectAnswer(o), "ApiError"} :
        /\ Log(p, op, o.namespace, o, answer)
        /\ IF answer = "Created"
           THEN /\ objects' = objects \cup {Stored(o, p)}
                /\ IF next = "done"
                   THEN /\ Finish(p, "exit0", None)
                        /\ Say(p, "Tenant created.")
                   ELSE /\ Goto(p, next)
                        /\ UNCHANGED out
           ELSE /\ UNCHANGED <<objects, out>>
                /\ Finish(p, "exit1", answer)
    /\ UNCHANGED <<nsPhase, nsLabels, nsBy, args, doc, nslist, git_out, runs>>

AddConfigMap(p) ==
    AddObject(p, "add_cm", "create_namespaced_config_map",
              TenantConfigMap(args[p]), "add_sa")
AddServiceAccount(p) ==
    AddObject(p, "add_sa", "create_namespaced_service_account",
              TenantServiceAccount(args[p]), "add_rb")
AddRoleBinding(p) ==
    AddObject(p, "add_rb", "create_namespaced_role_binding",
              TenantRoleBinding(args[p]), "add_cr")
AddKustomization(p) ==
    AddObject(p, "add_cr", "create_namespaced_custom_object",
              TenantKustomization(args[p], doc[p]), "done")

\* ------------------------------------------------------------- tenant list

Header == <<"NAMESPACE", "NAME", "NS-STATUS">>
Row(item) == <<item.name, item.labels[tenant_name_label], item.phase>>
Rows(items) == [i \in 1..Len(items) |-> Row(items[i])]
\* What tenant_list prints for the items the cluster returned.
Table(items) == <<Header>> \o Rows(items)

\* load_kube_config(), list_namespace(label_selector=...), print the table.
ListQuery(p) ==
    /\ pc[p] = "list_query"
    /\ \E answer \in {"Listed", "ApiError", "ConfigError"} :
        /\ IF answer = "ConfigError" THEN UNCHANGED calls
           ELSE Log(p, "list_namespace", None, <<<<>>, ListLabelSelector>>, answer)
        /\ IF answer = "Listed"
           THEN /\ out' = [out EXCEPT ![p] =
                             Table(ListNamespace(<<>>, ListLabelSelector))]
                /\ Finish(p, "exit0", None)
           ELSE /\ UNCHANGED out
                /\ Finish(p, "exit1", answer)
    /\ UNCHANGED <<cluster, args, doc, nslist, git_out, runs>>

\* ----------------------------------------------------------- tenant delete

UsageMessage == "--tenant-namespace and/or --tenant-name must be specified"

\* Mutant of DeleteCheck: the check is missing.
DeleteCheckSkipped(p) ==
    /\ pc[p] = "del_check"
    /\ Goto(p, "del_query")
    /\ UNCHANGED <<cluster, args, calls, out, doc, nslist, git_out, runs>>

\* The check of the arguments that opens tenant_delete.
DeleteCheck(p) ==
    /\ pc[p] = "del_check"
    /\ IF ~(Truthy(args[p].tenant_namespace) \/ Truthy(args[p].tenant_name))
       THEN /\ Say(p, UsageMessage)
            /\ Finish(p, "exit1", "UsageError")
       ELSE /\ UNCHANGED out
            /\ Goto(p, "del_query")
    /\ UNCHANGED <<cluster, args, calls, doc, nslist, git_out, runs>>

\* Mutant of DeleteQuery: with one match or more, the first is taken.
DeleteQueryTakesFirst(p) ==
    /\ pc[p] = "del_query"
    /\ LET fs == FieldSelector(args[p])
           ls == LabelSelector(args[p])
           items == ListNamespace(fs, ls)
       IN
       \E answer \in {"Listed", "ApiError", "ConfigError"} :
        /\ IF answer = "ConfigError" THEN UNCHANGED calls
           ELSE Log(p, "list_namespace", None, <<fs, ls>>, answer)
        /\ IF answer /= "Listed"
           THEN /\ Finish(p, "exit1", answer)
                /\ UNCHANGED <<out, nslist>>
           ELSE /\ nslist' = [nslist EXCEPT ![p] = items]
                /\ IF Len(items) >= 1
                   THEN IF \/ items[1].name = args[p].tenant_namespace
                           \/ ~Truthy(args[p].tenant_namespace)
                        THEN /\ Goto(p, "del_delete")
                             /\ UNCHANGED out
                        ELSE /\ Finish(p, "exit1", "AssertionError")
                             /\ UNCHANGED out
                   ELSE /\ Say(p, "Tenant not found")
                        /\ Finish(p, "exit1", "TenantNotFound")
    /\ UNCHANGED <<cluster, args, doc, git_out, runs>>

\* load_kube_config(), list_namespace with both selectors, and the branch
\* on the number of items, up to the assertion.
DeleteQuery(p) ==
    /\ pc[p] = "del_query"
    /\ LET fs == FieldSelector(args[p])
           ls == LabelSelector(args[p])
           items == ListNamespace(fs, ls)
       IN
       \E answer \in {"Listed", "ApiError", "ConfigError"} :
        /\ IF answer = "ConfigError" THEN UNCHANGED calls
           ELSE Log(p, "list_namespace", None, <<fs, ls>>, answer)
        /\ IF answer /= "Listed"
           THEN /\ Finish(p, "exit1", answer)
                /\ UNCHANGED <<out, nslist>>
           ELSE /\ nslist' = [nslist EXCEPT ![p] = items]
                /\ IF Len(items) = 1
                   THEN IF \/ items[1].name = args[p].tenant_namespace
                           \/ ~Truthy(args[p].tenant_namespace)
                        THEN /\ Goto(p, "del_delete")
                             /\ UNCHANGED out
                        ELSE /\ Finish(p, "exit1", "AssertionError")
                             /\ UNCHANGED out
                   ELSE IF Len(items) > 1
                        THEN /\ Finish(p, "exit1", "RuntimeError")
                             /\ UNCHANGED out
                        ELSE /\ Say(p, "Tenant not found")
                             /\ Finish(p, "exit1", "TenantNotFound")
    /\ UNCHANGED <<cluster, args, doc, git_out, runs>>

\* Mutant of DeleteNamespace: the call is a dry run, which the cluster
\* accepts without deleting anything.
DeleteNamespaceDryRun(p) ==
    /\ pc[p] = "del_delete"
    /\ LET tenant_ns_name == nslist[p][1].name IN
       \E answer \in {DeleteNamespaceAnswer(tenant_ns_name), "ApiError"} :
        /\ Log(p, "delete_namespace", tenant_ns_name, <<>>, answer)
        /\ IF answer = "Accepted"
           THEN /\ Say(p, "Namespace deletion requested")
                /\ Finish(p, "exit0", None)
           ELSE /\ UNCHANGED out
                /\ Finish(p, "exit1", answer)
    /\ UNCHANGED <<cluster, args, doc, nslist, git_out, runs>>

\* api_instance.delete_namespace(tenant_ns_name)
DeleteNamespace(p) ==
    /\ pc[p] = "del_delete"
    /\ LET tenant_ns_name == nslist[p][1].name IN
       \E answer \in {DeleteNamespaceAnswer(tenant_ns_name), "ApiError"} :
        /\ Log(p, "delete_namespace", tenant_ns_name, <<>>, answer)
        /\ IF answer = "Accepted"
           THEN /\ nsPhase' = [nsPhase EXCEPT ![tenant_ns_name] = "Terminating"]
                /\ Say(p, "Namespace deletion requested")
                /\ Finish(p, "exit0", None)
           ELSE /\ UNCHANGED <<nsPhase, out>>
                /\ Finish(p, "exit1", answer)
    /\ UNCHANGED <<nsLabels, nsBy, objects, args, doc, nslist, git_out, runs>>

\* --------------------------------------------------------------- bootstrap

GitRemoteCmd == <<"git", "remote", "get-url", "origin">>

\* subprocess.run(install_cmd, check=True)
BootInstall(p) ==
    /\ pc[p] = "boot_install"
    /\ \E answer \in {"Exit0", "CalledProcessError"} :
        /\ Log(p, "flux install", None, InstallCmd(args[p]), answer)
        /\ IF answer = "Exit0" THEN Goto(p, "boot_git_url")
           ELSE Finish(p, "exit1", answer)
    /\ UNCHANGED <<cluster, args, out, doc, nslist, git_out, runs>>

\* get_git_url(), evaluated as the default of getattr before getattr runs.
BootGetGitUrl(p) ==
    /\ pc[p] = "boot_git_url"
    /\ \E answer \in {"Exit0", "CalledProcessError"} :
        /\ Log(p, "git remote", None, GitRemoteCmd, answer)
        /\ IF answer = "Exit0"
           THEN /\ git_out' = [git_out EXCEPT ![p] = GitRemoteStdout]
                /\ Goto(p, "boot_source")
           ELSE /\ UNCHANGED git_out
                /\ Finish(p, "exit1", answer)
    /\ UNCHANGED <<cluster, args, out, doc, nslist, runs>>

\* subprocess.run(create_src_cmd, check=True)
BootCreateSource(p) ==
    /\ pc[p] = "boot_source"
    /\ \E answer \in {"Exit0", "CalledProcessError"} :
        /\ Log(p, "flux create source", None, CreateSrcCmd(args[p], git_out[p]),
               answer)
        /\ IF answer = "Exit0" THEN Finish(p, "exit0", None)
           ELSE Finish(p, "exit1", answer)
    /\ UNCHANGED <<cluster, args, out, doc, nslist, git_out, runs>>

\* ---------------------------------------------------------- specifications

Step(p) ==
    \/ AddLoad(p)
    \/ AddNamespace(p)
    \/ AddConfigMap(p)
    \/ AddServiceAccount(p)
    \/ AddRoleBinding(p)
    \/ AddKustomization(p)
    \/ ListQuery(p)
    \/ DeleteCheck(p)
    \/ DeleteQuery(p)
    \/ DeleteNamespace(p)
    \/ BootInstall(p)
    \/ BootGetGitUrl(p)
    \/ BootCreateSource(p)

Next ==
    \/ \E p \in Procs : Start(p)
    \/ \E p \in Procs : Step(p)
    \/ \E n \in AllNamespaces : Finalize(n)

\* One operator runs commands one after another against a cluster that
\* finishes namespace deletions on its own time.
Spec == Init /\ [][Next]_vars

\* The same, with a cluster that does finish every deletion it accepted.
LiveSpec == Spec /\ \A n \in AllNamespaces : WF_vars(Finalize(n))

\* Two operators each run one tenant add for the same namespace at the same
\* time.
RaceStart(p) ==
    /\ pc[p] = "idle"
    /\ \E a \in TenantAddArgs, no_hack_message \in BOOLEAN, tok \in BOOLEAN :
        /\ \A q \in Procs :
              pc[q] /= "idle" => args[q].tenant_namespace = a.tenant_namespace
        /\ StartWith(p, a, no_hack_message, tok)

NextRace ==
    \/ \E p \in Procs : RaceStart(p)
    \/ \E p \in Procs : AddLoad(p)
    \/ \E p \in Procs : AddNamespace(p)
    \/ \E p \in Procs : AddConfigMap(p)
    \/ \E p \in Procs : AddServiceAccount(p)
    \/ \E p \in Procs : AddRoleBinding(p)
    \/ \E p \in Procs : AddKustomization(p)

SpecRace == Init /\ [][NextRace]_vars

\* ------------------------------------------------------------- properties

Last(s) == s[Len(s)]
IsPrefix(s, t) == Len(s) <= Len(t) /\ \A i \in 1..Len(s) : s[i] = t[i]
Ops(p) == [i \in 1..Len(calls[p]) |-> calls[p][i].op]
Issued(p, op) == \E i \in 1..Len(calls[p]) : calls[p][i].op = op
\* Slot p has run past security_reminder() into workflow f.
Runs(p, f) == args[p].func = f /\ err[p] /= "SecurityReminder"

AddOrder ==
    << "create_namespace", "create_namespaced_config_map",
       "create_namespaced_service_account", "create_namespaced_role_binding",
       "create_namespaced_custom_object" >>

\* Call i of the tenant add in slot p has left its object in the cluster.
LeftInCluster(p, i) ==
    LET c == calls[p][i] IN
    IF c.op = "create_namespace"
    THEN nsPhase[c.target] = "Active" /\ nsLabels[c.target] = c.arg
    ELSE \E o \in objects :
            /\ o.kind = c.arg.kind /\ o.namespace = c.target
            /\ o.name = c.arg.name /\ o.body = c.arg.body

\* C1: tenant add issues its cluster calls in the order create-namespace,
\* create-config-map, create-service-account, create-role-binding,
\* create-custom-resource, all after the template is loaded and mutated; a
\* failed step is the last call issued, its failure is the invocation's
\* error with exit status 1, and what the earlier steps created is still in
\* the cluster (no rollback).
C1_AddOrderNoRollback ==
    \A p \in Procs : Runs(p, "tenant_add") =>
        /\ IsPrefix(Ops(p), AddOrder)
        /\ calls[p] /= <<>> =>
              /\ doc[p].metadata.namespace = args[p].tenant_namespace
              /\ doc[p].spec.targetNamespace = args[p].tenant_namespace
              /\ doc[p].spec.postBuild.substitute.SUBST_LITERAL = args[p].tenant_name
        /\ \A i \in 1..Len(calls[p]) :
              IF calls[p][i].answer = "Created"
              THEN LeftInCluster(p, i)
              ELSE /\ i = Len(calls[p])
                   /\ pc[p] = "done" /\ status[p] = "exit1"
                   /\ err[p] = calls[p][i].answer
        /\ status[p] = "exit0" => Len(calls[p]) = Len(AddOrder)
\* A tenant add whose third call failed after two that created something.
C1_Witness ==
    \E p \in Procs :
        /\ Runs(p, "tenant_add") /\ Len(calls[p]) = 3
        /\ calls[p][3].answer = "ApiError" /\ status[p] = "exit1"
        /\ LeftInCluster(p, 1) /\ LeftInCluster(p, 2)

\* C2: bootstrap --git-url URL issues flux install and then flux create
\* source with --url=URL exactly, and never the second after a failed
\* first.
C2_SourceCarriesGivenUrl ==
    \A p \in Procs : (Runs(p, "bootstrap") /\ args[p].git_url /= NoneChars) =>
        /\ calls[p] /= <<>> => calls[p][1].op = "flux install"
        /\ \A i \in 1..Len(calls[p]) : calls[p][i].op = "flux create source" =>
              /\ i > 1 /\ calls[p][1].answer = "Exit0"
              /\ calls[p][i].arg[6] = "--url=" \o Join(args[p].git_url)

\* C3: the installer invocation carries the cluster-name flag for NAME
\* when --kube-cluster NAME is given and no such flag when it is not.
C3_InstallCarriesCluster ==
    \A p \in Procs : (Runs(p, "bootstrap") /\ calls[p] /= <<>>) =>
        LET argv == calls[p][1].arg
            flag == "--cluster=" \o args[p].kube_cluster
        IN  IF args[p].kube_cluster /= None
            THEN \E i \in 1..Len(argv) : argv[i] = flag
            ELSE argv = <<"flux", "install", "-n", "flux-system",
                          "--watch-all-namespaces">>

\* The rows of a printed table that are about namespace n.
RowsFor(table, n) == {i \in 2..Len(table) : table[i][1] = n}

\* C4: a successful tenant add NS NAME followed by tenant list prints
\* exactly one row whose namespace is NS, and that row's name is NAME.
C4_ListShowsAddedTenant ==
    [][\A p \in Procs :
          ( /\ pc[p] = "list_query" /\ pc'[p] = "done" /\ status'[p] = "exit0"
            /\ prev /= NoTenant ) =>
              /\ out'[p][1] = Header
              /\ Cardinality(RowsFor(out'[p], prev[1])) = 1
              /\ \A i \in RowsFor(out'[p], prev[1]) : out'[p][i][2] = prev[2]
      ]_vars
\* The second of two invocations was a tenant list, and it printed a row
\* for a namespace the first one provisioned completely.
C4_Witness ==
    \E p \in Procs, n \in TenantNamespaces :
        /\ runs = 2 /\ Runs(p, "tenant_list") /\ status[p] = "exit0"
        /\ RowsFor(out[p], n) /= {}
        /\ \E o \in objects : o.kind = "kustomizations" /\ o.namespace = n

\* C5: tenant add for a namespace that already exists fails at the
\* create-namespace step, with AlreadyExists whenever the cluster answers,
\* exits 1 and leaves every cluster object as it was.
C5_SecondAddFails ==
    /\ [][\A p \in Procs :
            ( /\ pc[p] = "add_ns" /\ pc'[p] /= "add_ns"
              /\ nsPhase[args[p].tenant_namespace] /= "Absent" ) =>
                /\ pc'[p] = "done" /\ status'[p] = "exit1"
                /\ Len(calls'[p]) = 1
                /\ calls'[p][1].op = "create_namespace"
                /\ calls'[p][1].answer \in {"AlreadyExists", "ApiError"}
                /\ err'[p] = calls'[p][1].answer
                /\ UNCHANGED cluster
       ]_vars
    /\ [](\A p \in Procs :
            ( /\ Runs(p, "tenant_add") /\ calls[p] /= <<>>
              /\ calls[p][1].answer = "AlreadyExists" ) =>
                /\ Len(calls[p]) = 1 /\ pc[p] = "done"
                /\ status[p] = "exit1" /\ err[p] = "AlreadyExists")
\* A tenant add failed with AlreadyExists on a tenant's namespace, whose
\* tenant-name label is still the other name the first add gave it.
C5_Witness ==
    \E p \in Procs :
        /\ Runs(p, "tenant_add") /\ err[p] = "AlreadyExists"
        /\ args[p].tenant_namespace \in TenantNamespaces
        /\ nsLabels[args[p].tenant_namespace][tenant_name_label]
              \notin {None, args[p].tenant_name}
        /\ \E o \in objects : o.namespace = args[p].tenant_namespace

\* C6: tenant delete with neither --tenant-namespace nor --tenant-name
\* exits 1 after printing the usage message and issues no cluster call, so
\* the cluster is as it was.
C6_DeleteUsage ==
    /\ [](\A p \in Procs :
            ( /\ Runs(p, "tenant_delete")
              /\ args[p].tenant_namespace \in {None, ""}
              /\ args[p].tenant_name \in {None, ""} ) =>
                /\ calls[p] = <<>>
                /\ pc[p] \in {"del_check", "done"}
                /\ pc[p] = "done" =>
                      /\ status[p] = "exit1" /\ err[p] = "UsageError"
                      /\ out[p] = <<UsageMessage>>)
    /\ [][\A p \in Procs :
            ( /\ pc[p] = "del_check" /\ pc'[p] /= "del_check"
              /\ args[p].tenant_namespace \in {None, ""}
              /\ args[p].tenant_name \in {None, ""} ) => UNCHANGED cluster
       ]_vars
\* A tenant delete without either flag has exited while a tenant exists.
C6_Witness ==
    \E p \in Procs :
        /\ Runs(p, "tenant_delete") /\ pc[p] = "done"
        /\ args[p].tenant_namespace = None /\ args[p].tenant_name \in {None, ""}
        /\ \E n \in TenantNamespaces : nsPhase[n] = "Active"

\* The namespaces the arguments a of tenant delete select: those present
\* with a tenant-name label, named a.tenant_namespace if that is given and
\* labelled a.tenant_name if that is given.
Selected(a) ==
    {n \in AllNamespaces :
        /\ nsPhase[n] /= "Absent"
        /\ nsLabels[n][tenant_name_label] /= None
        /\ Truthy(a.tenant_namespace) => n = a.tenant_namespace
        /\ Truthy(a.tenant_name) => nsLabels[n][tenant_name_label] = a.tenant_name}
\* The step of slot p in which its tenant delete gets the answer to its query.
Queried(p) ==
    /\ pc[p] = "del_query" /\ pc'[p] /= "del_query"
    /\ calls'[p] /= <<>> /\ Last(calls'[p]).answer = "Listed"

\* C7: when the selector of tenant delete matches more than one namespace
\* the command aborts with a fatal error, when it matches none it reports
\* not found and exits 1; in both cases it issues no delete-namespace call.
C7_NoDeleteUnlessOneMatch ==
    /\ [][\A p \in Procs : Queried(p) =>
            /\ Cardinality(Selected(args[p])) > 1 =>
                  /\ pc'[p] = "done" /\ status'[p] = "exit1"
                  /\ err'[p] = "RuntimeError"
            /\ Cardinality(Selected(args[p])) = 0 =>
                  /\ pc'[p] = "done" /\ status'[p] = "exit1"
                  /\ err'[p] = "TenantNotFound"
                  /\ out'[p] = <<"Tenant not found">>
            /\ UNCHANGED cluster
       ]_vars
    /\ [](\A p \in Procs :
            (Runs(p, "tenant_delete") /\ err[p] \in {"RuntimeError", "TenantNotFound"})
                => pc[p] = "done" /\ ~Issued(p, "delete_namespace"))
\* A tenant delete by name matched both tenants' namespaces and aborted
\* with both still active.
C7_Witness ==
    \E p \in Procs :
        /\ Runs(p, "tenant_delete") /\ err[p] = "RuntimeError"
        /\ Len(nslist[p]) = 2
        /\ \A n \in TenantNamespaces : nsPhase[n] = "Active"

\* Tenant delete --tenant-namespace n has exited with its deletion accepted.
DeleteAccepted(p, n) ==
    /\ Runs(p, "tenant_delete") /\ pc[p] = "done" /\ status[p] = "exit0"
    /\ args[p].tenant_namespace = n
    /\ Last(calls[p]).op = "delete_namespace" /\ Last(calls[p]).target = n
\* What tenant list would print in the current state of the cluster.
ListNow == Table(ListNamespace(<<>>, ListLabelSelector))

\* C8: once tenant delete --tenant-namespace NS has been accepted, and the
\* cluster completes the deletions it accepted, tenant list comes to print
\* no row for NS; and every row tenant list prints is a namespace that is
\* in the cluster, labelled, when the list is taken.
C8_DeletedTenantLeavesList ==
    /\ \A n \in TenantNamespaces :
          (\E p \in Procs : DeleteAccepted(p, n)) ~> (RowsFor(ListNow, n) = {})
    /\ [][\A p \in Procs :
            (pc[p] = "list_query" /\ pc'[p] = "done" /\ status'[p] = "exit0") =>
                /\ out'[p] = ListNow
                /\ \A i \in 2..Len(out'[p]) :
                      /\ nsPhase[out'[p][i][1]] = out'[p][i][3]
                      /\ out'[p][i][3] /= "Absent"
                      /\ nsLabels[out'[p][i][1]][tenant_name_label] = out'[p][i][2]
                      /\ out'[p][i][2] /= None
                /\ \A n \in AllNamespaces :
                      nsPhase[n] = "Absent" => RowsFor(out'[p], n) = {}
       ]_vars
\* The namespace of an accepted tenant delete --tenant-namespace is gone
\* from the cluster, and from what tenant list prints, while the other
\* tenant is still listed.
C8_Witness ==
    \E p \in Procs, n \in TenantNamespaces :
        /\ DeleteAccepted(p, n)
        /\ nsPhase[n] = "Absent" /\ RowsFor(ListNow, n) = {}
        /\ Len(ListNow) = 2

\* C10: the namespace tenant delete deletes is the single one its query
\* returned: it carried the tenant-name label when queried, it is the
\* --tenant-namespace argument if one is given and its tenant-name label is
\* the --tenant-name argument if one is given (given as tenant_delete tests
\* it: neither None nor the empty string); so the assertion before the
\* delete never fails and a namespace without the label is never deleted.
C10_DeletesOnlyTheQueriedTenant ==
    /\ [][\A p \in Procs :
            /\ (Queried(p) /\ pc'[p] = "del_delete") =>
                  /\ Len(nslist'[p]) = 1
                  /\ Selected(args[p]) = {nslist'[p][1].name}
            /\ (pc[p] = "del_delete" /\ pc'[p] /= "del_delete") =>
                  /\ Last(calls'[p]).op = "delete_namespace"
                  /\ Last(calls'[p]).target = nslist[p][1].name
                  /\ \A n \in AllNamespaces :
                        nsPhase'[n] /= nsPhase[n] =>
                            /\ n = nslist[p][1].name
                            /\ nsLabels[n][tenant_name_label] /= None
                  /\ nslist[p][1].labels[tenant_name_label] /= None
                  /\ Truthy(args[p].tenant_namespace) =>
                        nslist[p][1].name = args[p].tenant_namespace
                  /\ Truthy(args[p].tenant_name) =>
                        nslist[p][1].labels[tenant_name_label] = args[p].tenant_name
       ]_vars
    /\ [](\A p \in Procs : err[p] /= "AssertionError")
    /\ [](\A n \in AllNamespaces :
            nsPhase[n] = "Terminating" => nsLabels[n][tenant_name_label] /= None)
\* A tenant delete given both flags had its deletion accepted while the
\* other tenant's namespace stays active.
C10_Witness ==
    \E p \in Procs :
        /\ Runs(p, "tenant_delete") /\ status[p] = "exit0"
        /\ Truthy(args[p].tenant_namespace) /\ Truthy(args[p].tenant_name)
        /\ Last(calls[p]).answer = "Accepted"
        /\ nsPhase[args[p].tenant_namespace] = "Terminating"
        /\ \E n \in TenantNamespaces : nsPhase[n] = "Active"

\* The tenant adds for namespace n, those of them the cluster answered at
\* create-namespace, and those whose create-namespace succeeded.
Adders(n) == {p \in Procs : Runs(p, "tenant_add") /\ args[p].tenant_namespace = n}
Answered(n) ==
    {p \in Adders(n) : calls[p] /= <<>> /\ calls[p][1].answer /= "ApiError"}
Won(n) == {p \in Adders(n) : calls[p] /= <<>> /\ calls[p][1].answer = "Created"}
\* Object o carries the tenant name of the arguments a where it has one.
WrittenWith(o, a) ==
    /\ o.kind = "ConfigMap" =>
          o.body.PER_TENANT_SUBST = "This tenant name is \"" \o a.tenant_name \o "\""
    /\ o.kind = "kustomizations" =>
          /\ o.body.spec.postBuild.substitute.SUBST_LITERAL = a.tenant_name
          /\ o.body.spec.targetNamespace = a.tenant_namespace

\* C9: of two concurrent tenant adds for the same new namespace at most one
\* has its create-namespace succeed, and exactly one once the cluster has
\* answered both; the other fails with AlreadyExists, having created
\* nothing; the labels and the objects of the namespace are those written
\* by the one that succeeded.
C9_RaceHasOneWinner ==
    \A n \in TenantNamespaces :
        /\ Cardinality(Won(n)) <= 1
        /\ Answered(n) = Procs => Cardinality(Won(n)) = 1
        /\ \A p \in Answered(n) \ Won(n) :
              /\ calls[p][1].answer = "AlreadyExists" /\ Len(calls[p]) = 1
              /\ pc[p] = "done" /\ status[p] = "exit1" /\ err[p] = "AlreadyExists"
              /\ nsBy[n] /= p
              /\ \A o \in objects : o.by /= p
        /\ \A p \in Won(n) :
              /\ nsBy[n] = p
              /\ nsLabels[n][tenant_name_label] = args[p].tenant_name
              /\ nsLabels[n][flux_tenant_label] = n
              /\ \A o \in objects : o.namespace = n =>
                    o.by = p /\ WrittenWith(o, args[p])
        /\ Won(n) = {} => nsPhase[n] = "Absent" /\ ~\E o \in objects : o.namespace = n
\* Two tenant adds with different names raced for one namespace; one
\* finished all five steps and the other got AlreadyExists.
C9_Witness ==
    \E p, q \in Procs :
        /\ Runs(p, "tenant_add") /\ Runs(q, "tenant_add")
        /\ args[p].tenant_namespace = args[q].tenant_namespace
        /\ args[p].tenant_name /= args[q].tenant_name
        /\ status[p] = "exit0" /\ err[q] = "AlreadyExists"
        /\ Cardinality({o \in objects : o.namespace = args[p].tenant_namespace}) = 4
====
